---- MODULE Spec2Model ----
(***************************************************************************)
(* A model of GrantProgram's core library (src/lib.rs): the                *)
(* GrantProgramProcessor object (new, process, get_stats) and the run      *)
(* function that drives one processor over an input file and emits its     *)
(* statistics as JSON text.                                                *)
(***************************************************************************)
EXTENDS Integers, Sequences, FiniteSets, TLC

(***************************************************************************)
(* Bounds of the model.                                                    *)
(***************************************************************************)
\* Width of usize in the model.  The real widths (32 or 64 bits) exceed the
\* integers TLC computes with; the increment behaves the same at any width.
UsizeBits == 16
\* Largest number of process calls made on the processor object.
MaxCalls == 3
\* Largest number of lines the model lets accumulate on standard output.
MaxPrinted == 2
\* Largest number of bytes a failing write puts in the file before it fails.
MaxPartial == 1
\* Counter values within this distance of 0 and of usize::MAX are the
\* starting values of a processor whose public field was set by the caller.
EdgeSpan == 2

UsizeMax == (2 ^ UsizeBits) - 1

\* Input strings handed to process, and contents a file can have at start.
Texts == {"", "grant"}
\* Values chrono::Utc::now().to_rfc3339() can return.
Times == {"2024-01-01T00:00:00+00:00", "2024-01-01T00:00:01+00:00"}
\* File-system paths.
Paths == {"in.txt", "out.txt"}
\* Option<T>: None and Some(x).
None == [some |-> FALSE]
Some(x) == [some |-> TRUE, value |-> x]
\* What a path holds: no file, or a file with its text.
Missing == [exists |-> FALSE]
File(text) == [exists |-> TRUE, text |-> text]

VARIABLES
    processor,        \* the GrantProgramProcessor under direct API use
    overflow_checks,  \* build profile: TRUE = overflow panics, FALSE = wraps
    calls,            \* history: process calls that returned Ok
    ret,              \* history: the last API call and what it returned
    built_verbose,    \* history: the verbose flag the processor was built with
    logger_set,       \* the log crate's global logger has been installed
    fs,               \* the file system: path -> text or Missing
    stdout,           \* lines printed to standard output
    stdin,            \* text waiting on standard input
    last_run          \* history: the last run call, its arguments and outcome

vars == <<processor, overflow_checks, calls, ret, built_verbose,
          logger_set, fs, stdout, stdin, last_run>>
procVars == <<processor, overflow_checks, calls, ret, built_verbose>>
runVars == <<logger_set, fs, stdout, stdin, last_run>>

(***************************************************************************)
(* GrantProgramProcessor                                                   *)
(***************************************************************************)
\* Mutant of new: the counter starts at 1.
new_from_one(verbose) == [verbose |-> verbose, processed_count |-> 1]

new(verbose) == [verbose |-> verbose, processed_count |-> 0]

\* `self.processed_count += 1` on a usize: below usize::MAX it adds one; at
\* usize::MAX it panics when the build checks overflow and wraps to 0 when
\* it does not.
add_assign_one(n, checks) ==
    IF n < UsizeMax THEN [panic |-> FALSE, value |-> n + 1]
    ELSE IF checks THEN [panic |-> TRUE, value |-> n]
    ELSE [panic |-> FALSE, value |-> (n + 1) % (2 ^ UsizeBits)]

\* format!("Successfully processed item #{}", n)
format_message(n) == "Successfully processed item #" \o ToString(n)

\* Mutant of process: the incremented counter is not stored.
process_no_increment(self, data, now, checks) ==
    [kind |-> "ok",
     self |-> self,
     result |-> [success |-> TRUE,
                 message |-> format_message(self.processed_count + 1),
                 data |-> [length |-> Len(data),
                           processed_at |-> now,
                           item_number |-> self.processed_count + 1]]]

\* Mutant of process: the result is built from the counter as it was
\* before the increment.
process_old_count(self, data, now, checks) ==
    LET inc == add_assign_one(self.processed_count, checks)
        after == [self EXCEPT !.processed_count = inc.value]
    IN  IF inc.panic
        THEN [kind |-> "panic", self |-> self, result |-> None]
        ELSE [kind |-> "ok",
              self |-> after,
              result |-> [success |-> TRUE,
                          message |-> format_message(self.processed_count),
                          data |-> [length |-> Len(data),
                                    processed_at |-> now,
                                    item_number |-> self.processed_count]]]

\* process(&mut self, data): the processor after the call and the value
\* returned.  kind is "ok" for Ok(result) and "panic" when the increment
\* panicked before anything was stored.
process(self, data, now, checks) ==
    LET inc == add_assign_one(self.processed_count, checks)
        after == [self EXCEPT !.processed_count = inc.value]
    IN  IF inc.panic
        THEN [kind |-> "panic", self |-> self, result |-> None]
        ELSE [kind |-> "ok",
              self |-> after,
              result |-> [success |-> TRUE,
                          message |-> format_message(after.processed_count),
                          data |-> [length |-> Len(data),
                                    processed_at |-> now,
                                    item_number |-> after.processed_count]]]

\* Mutant of get_stats: the verbose flag is reported as false.
get_stats_default(self) ==
    [processed_count |-> self.processed_count, verbose |-> FALSE]

\* get_stats(&self)
get_stats(self) ==
    [processed_count |-> self.processed_count, verbose |-> self.verbose]

\* serde_json::to_string of the stats value: an object whose keys are
\* written in sorted order, without white space.
to_string(stats) ==
    "{\"processed_count\":" \o ToString(stats.processed_count)
        \o ",\"verbose\":" \o (IF stats.verbose THEN "true" ELSE "false")
        \o "}"

(***************************************************************************)
(* run and the library calls it makes                                      *)
(***************************************************************************)
\* Option<String> arguments of run: no path, or one of the paths.
OptPaths == {None} \cup {Some(p) : p \in Paths}

\* env_logger::init() and Builder::init(): both install the global logger
\* and panic when one is installed already.
init_logging(installed) == [panic |-> installed, logger_set |-> TRUE]

\* fs::read_to_string(path): the text of the file; an error when no file
\* is there or the read fails (permissions, invalid UTF-8, device error).
read_to_string(files, path, fault) ==
    IF ~files[path].exists \/ fault
    THEN [ok |-> FALSE, text |-> ""]
    ELSE [ok |-> TRUE, text |-> files[path].text]

\* Mutant of read_input: without a path, standard input is read to its end.
read_input_stdin(input, files, input_stream, fault) ==
    IF input.some
    THEN LET r == read_to_string(files, input.value, fault)
         IN  [ok |-> r.ok, text |-> r.text, stdin |-> input_stream,
              trace |-> <<"read_to_string">>]
    ELSE [ok |-> TRUE, text |-> input_stream, stdin |-> "",
          trace |-> <<"read_stdin">>]

\* Lines 110-119: the input text, or the error that `?` returns.  Without a
\* path the input is String::new(); standard input is left alone.
read_input(input, files, input_stream, fault) ==
    IF input.some
    THEN LET r == read_to_string(files, input.value, fault)
         IN  [ok |-> r.ok, text |-> r.text, stdin |-> input_stream,
              trace |-> <<"read_to_string">>]
    ELSE [ok |-> TRUE, text |-> "", stdin |-> input_stream, trace |-> <<>>]

\* What can go wrong in fs::write(path, contents), which is
\* File::create(path)?.write_all(contents): nothing; the create fails and the
\* path is untouched; or the file is created (emptied) and write_all
\* fails after `written` bytes.
NoFault == [stage |-> "none", written |-> 0]
WriteFaults ==
    {NoFault, [stage |-> "create", written |-> 0]}
        \cup {[stage |-> "write", written |-> k] : k \in 0..MaxPartial}

fs_write(files, path, contents, fault) ==
    CASE fault.stage = "none" ->
            [ok |-> TRUE, fs |-> [files EXCEPT ![path] = File(contents)]]
      [] fault.stage = "create" ->
            [ok |-> FALSE, fs |-> files]
      [] fault.stage = "write" ->
            [ok |-> FALSE,
             fs |-> [files EXCEPT
                        ![path] = File(SubSeq(contents, 1, fault.written))]]

\* Mutant of write_output: the stats text is printed even when it was
\* written to the file.
write_output_both(output, output_data, env, fault) ==
    IF output.some
    THEN LET w == fs_write(env.fs, output.value, output_data, fault)
         IN  [ok |-> w.ok,
              env |-> [env EXCEPT !.fs = w.fs,
                                  !.stdout = Append(env.stdout, output_data)],
              trace |-> <<"fs_write", "println">>]
    ELSE [ok |-> TRUE,
          env |-> [env EXCEPT !.stdout = Append(env.stdout, output_data)],
          trace |-> <<"println">>]

\* Lines 126-130: the stats text goes to the file at output, or to standard
\* output when there is no output path.
write_output(output, output_data, env, fault) ==
    IF output.some
    THEN LET w == fs_write(env.fs, output.value, output_data, fault)
         IN  [ok |-> w.ok, env |-> [env EXCEPT !.fs = w.fs],
              trace |-> <<"fs_write">>]
    ELSE [ok |-> TRUE,
          env |-> [env EXCEPT !.stdout = Append(env.stdout, output_data)],
          trace |-> <<"println">>]

\* Mutant of run: process is called twice on the input.
run_process_twice(verbose, input, output, env, faults, now, checks) ==
    LET log == init_logging(env.logger_set)
        env1 == [env EXCEPT !.logger_set = log.logger_set]
        processor0 == new(verbose)
        rd == read_input(input, env1.fs, env1.stdin, faults.read)
        env2 == [env1 EXCEPT !.stdin = rd.stdin]
        pr == process(process(processor0, rd.text, now, checks).self,
                     rd.text, now, checks)
        output_data == to_string(get_stats(pr.self))
        wr == write_output(output, output_data, env2, faults.write)
        t1 == <<"init_logging">>
        t2 == t1 \o <<"new">> \o rd.trace
        t3 == t2 \o <<"process", "process">>
        t4 == t3 \o <<"get_stats", "to_string">> \o wr.trace
    IN  IF log.panic
        THEN [kind |-> "panic", env |-> env, trace |-> t1,
              processed |-> <<>>, emitted |-> None]
        ELSE IF ~rd.ok
        THEN [kind |-> "err", env |-> env2, trace |-> t2,
              processed |-> <<>>, emitted |-> None]
        ELSE IF pr.kind = "panic"
        THEN [kind |-> "panic", env |-> env2, trace |-> t3,
              processed |-> <<rd.text, rd.text>>, emitted |-> None]
        ELSE IF ~wr.ok
        THEN [kind |-> "err", env |-> wr.env, trace |-> t4,
              processed |-> <<rd.text, rd.text>>, emitted |-> None]
        ELSE [kind |-> "ok", env |-> wr.env, trace |-> t4,
              processed |-> <<rd.text, rd.text>>, emitted |-> Some(output_data)]

\* run(verbose, input, output) in environment env, with the faults the
\* environment injects and the clock reading now.  kind is "ok" for Ok(()),
\* "err" for a returned Err and "panic" for a panic; env is the environment
\* afterwards, trace the calls made in order, and processed the strings
\* handed to process.
run(verbose, input, output, env, faults, now, checks) ==
    LET log == init_logging(env.logger_set)
        env1 == [env EXCEPT !.logger_set = log.logger_set]
        processor0 == new(verbose)
        rd == read_input(input, env1.fs, env1.stdin, faults.read)
        env2 == [env1 EXCEPT !.stdin = rd.stdin]
        pr == process(processor0, rd.text, now, checks)
        output_data == to_string(get_stats(pr.self))
        wr == write_output(output, output_data, env2, faults.write)
        t1 == <<"init_logging">>
        t2 == t1 \o <<"new">> \o rd.trace
        t3 == t2 \o <<"process">>
        t4 == t3 \o <<"get_stats", "to_string">> \o wr.trace
    IN  IF log.panic
        THEN [kind |-> "panic", env |-> env, trace |-> t1,
              processed |-> <<>>, emitted |-> None]
        ELSE IF ~rd.ok
        THEN [kind |-> "err", env |-> env2, trace |-> t2,
              processed |-> <<>>, emitted |-> None]
        ELSE IF pr.kind = "panic"
        THEN [kind |-> "panic", env |-> env2, trace |-> t3,
              processed |-> <<rd.text>>, emitted |-> None]
        ELSE IF ~wr.ok
        THEN [kind |-> "err", env |-> wr.env, trace |-> t4,
              processed |-> <<rd.text>>, emitted |-> None]
        ELSE [kind |-> "ok", env |-> wr.env, trace |-> t4,
              processed |-> <<rd.text>>, emitted |-> Some(output_data)]

(***************************************************************************)
(* Initial states.                                                         *)
(***************************************************************************)
InitEnv ==
    /\ logger_set = FALSE
    /\ fs \in [Paths -> {Missing} \cup {File(t) : t \in Texts}]
    /\ stdout = <<>>
    /\ stdin = "typed"
    /\ last_run = [kind |-> "none"]

\* A processor just built by new(verbose).
Init ==
    /\ \E verbose \in BOOLEAN :
          /\ processor = new(verbose)
          /\ built_verbose = verbose
    /\ ret = [op |-> "new", kind |-> "ok"]
    /\ overflow_checks \in BOOLEAN
    /\ calls = 0
    /\ InitEnv

\* processed_count is a public field: a caller can hand process a processor
\* holding any usize.  The values tried are those near 0 and near usize::MAX.
FieldValues == (0..EdgeSpan) \cup ((UsizeMax - EdgeSpan)..UsizeMax)

InitField ==
    /\ \E verbose \in BOOLEAN, count \in FieldValues :
          /\ processor = [verbose |-> verbose, processed_count |-> count]
          /\ built_verbose = verbose
    /\ ret = [op |-> "set_field", kind |-> "ok"]
    /\ overflow_checks \in BOOLEAN
    /\ calls = 0
    /\ InitEnv

(***************************************************************************)
(* The processor's operations.                                             *)
(***************************************************************************)
Process ==
    /\ calls < MaxCalls
    /\ \E data \in Texts, now \in Times :
          LET r == process(processor, data, now, overflow_checks)
          IN  /\ processor' = r.self
              /\ calls' = IF r.kind = "ok" THEN calls + 1 ELSE calls
              /\ ret' = [op |-> "process", kind |-> r.kind, arg |-> data,
                         before |-> processor, value |-> r.result]
    /\ UNCHANGED <<overflow_checks, built_verbose, runVars>>

GetStats ==
    /\ processor' = processor
    /\ ret' = [op |-> "get_stats", kind |-> "ok", before |-> processor,
               value |-> get_stats(processor)]
    /\ UNCHANGED <<overflow_checks, calls, built_verbose, runVars>>

NextProc == Process \/ GetStats

Spec == Init /\ [][NextProc]_vars

SpecField == InitField /\ [][NextProc]_vars

(***************************************************************************)
(* Calls of run in one operating-system process.                           *)
(***************************************************************************)
Env == [logger_set |-> logger_set, fs |-> fs, stdout |-> stdout,
        stdin |-> stdin]

\* The faults that can strike a call with these arguments: a read fault
\* needs an input path, a write fault an output path.
FaultsFor(input, output) ==
    [read : IF input.some THEN BOOLEAN ELSE {FALSE},
     write : IF output.some THEN WriteFaults ELSE {NoFault}]

Run ==
    /\ Len(stdout) < MaxPrinted
    /\ \E verbose \in BOOLEAN, input \in OptPaths, output \in OptPaths,
          now \in Times :
          \E faults \in FaultsFor(input, output) :
             LET r == run(verbose, input, output, Env, faults, now,
                          overflow_checks)
             IN  /\ logger_set' = r.env.logger_set
                 /\ fs' = r.env.fs
                 /\ stdout' = r.env.stdout
                 /\ stdin' = r.env.stdin
                 /\ last_run' = [kind |-> r.kind, verbose |-> verbose,
                                 input |-> input, output |-> output,
                                 faults |-> faults, before |-> Env,
                                 trace |-> r.trace,
                                 processed |-> r.processed,
                                 emitted |-> r.emitted]
    /\ UNCHANGED procVars

NextRun == Run

SpecRun == Init /\ [][NextRun]_vars
(***************************************************************************)
(* Properties.                                                             *)
(***************************************************************************)
\* The stats text of a processor that processed one item.
StatsJsonOfOne(verbose) ==
    IF verbose THEN "{\"processed_count\":1,\"verbose\":true}"
    ELSE "{\"processed_count\":1,\"verbose\":false}"

\* The places of event e in trace t.
Positions(t, e) == {i \in 1..Len(t) : t[i] = e}

\* C1: on a processor built by new, every process call that returns Ok
\* leaves processed_count exactly one above its value before the call, no
\* call leaves it below its value before the call, and it is never negative.
C1_CountRisesByOne ==
    /\ processor.processed_count >= 0
    /\ ret.op \in {"process", "get_stats"}
          => processor.processed_count >= ret.before.processed_count
    /\ (ret.op = "process" /\ ret.kind = "ok")
          => processor.processed_count = ret.before.processed_count + 1

C1_Witness ==
    /\ ret.op = "process"
    /\ ret.kind = "ok"
    /\ ret.before.processed_count = 1
    /\ processor.processed_count = 2

\* C2: processed_count is 0 after new and always equals the number of
\* process calls made on the processor since.
C2_CountEqualsCalls ==
    /\ processor.processed_count = calls
    /\ ret.op = "new" => processor.processed_count = 0

C2_Witness ==
    /\ ret.op = "process"
    /\ calls = 3
    /\ processor.processed_count = 3

\* C3: the result of process(s) has success = true, data.length = len(s),
\* and data.item_number and the number in message both equal to
\* processed_count after the call; on a fresh processor that count is 1.
C3_ResultMatchesCall ==
    (ret.op = "process" /\ ret.kind = "ok") =>
        /\ ret.value.success = TRUE
        /\ ret.value.data.length = Len(ret.arg)
        /\ ret.value.data.item_number = processor.processed_count
        /\ ret.value.message =
              "Successfully processed item #"
                  \o ToString(processor.processed_count)
        /\ ret.before.processed_count = 0
              => (processor.processed_count = 1
                    /\ ret.value.message = "Successfully processed item #1")

C3_Witness ==
    /\ ret.op = "process"
    /\ ret.kind = "ok"
    /\ ret.arg = "grant"
    /\ ret.value.data.length = 5
    /\ ret.value.data.item_number = 2
    /\ ret.value.message = "Successfully processed item #2"

\* C4: get_stats changes nothing in the processor and returns its current
\* processed_count with the verbose flag given to new; no call changes the
\* verbose flag.
C4_GetStatsPureRead ==
    /\ processor.verbose = built_verbose
    /\ ret.op = "get_stats" =>
          /\ processor = ret.before
          /\ ret.value = [processed_count |-> processor.processed_count,
                          verbose |-> built_verbose]

C4_Witness ==
    /\ ret.op = "get_stats"
    /\ built_verbose = TRUE
    /\ ret.value.processed_count = 2
    /\ ret.value.verbose = TRUE

\* C5: a run that returned Ok called process exactly once, after any read of
\* the input and before get_stats and the serialization, and the stats it
\* emitted are processed_count = 1 with run's verbose argument.
C5_OkRunProcessedOnce ==
    last_run.kind = "ok" =>
        LET t == last_run.trace
            later == Positions(t, "get_stats") \cup Positions(t, "to_string")
                        \cup Positions(t, "fs_write")
                        \cup Positions(t, "println")
        IN  /\ Cardinality(Positions(t, "process")) = 1
            /\ Len(last_run.processed) = 1
            /\ Positions(t, "to_string") # {}
            /\ \A i \in Positions(t, "process") :
                  /\ \A r \in Positions(t, "read_to_string") : r < i
                  /\ \A l \in later : i < l
            /\ last_run.emitted = Some(StatsJsonOfOne(last_run.verbose))

C5_Witness ==
    /\ last_run.kind = "ok"
    /\ last_run.verbose = TRUE
    /\ last_run.input = Some("in.txt")
    /\ last_run.processed = <<"grant">>
    /\ last_run.emitted = Some("{\"processed_count\":1,\"verbose\":true}")

\* C6: a run that returned Err printed nothing and left the content of the
\* output file as it was; when the input could not be read, process was not
\* called.
C6_FailedRunNoOutput ==
    last_run.kind = "err" =>
        /\ stdout = last_run.before.stdout
        /\ last_run.output.some =>
              fs[last_run.output.value]
                 = last_run.before.fs[last_run.output.value]
        /\ (last_run.input.some
              /\ (last_run.faults.read
                    \/ ~last_run.before.fs[last_run.input.value].exists))
              => (last_run.processed = <<>>
                    /\ Positions(last_run.trace, "process") = {})

\* C7: a run that returned Ok put the stats text in exactly one place: with
\* an output path that file holds exactly the stats text and nothing was
\* printed; without one the text was printed and no file changed.
C7_OneDestination ==
    last_run.kind = "ok" =>
        LET json == StatsJsonOfOne(last_run.verbose)
        IN  IF last_run.output.some
            THEN /\ fs[last_run.output.value] = File(json)
                 /\ \A p \in Paths \ {last_run.output.value} :
                       fs[p] = last_run.before.fs[p]
                 /\ stdout = last_run.before.stdout
            ELSE /\ stdout = Append(last_run.before.stdout, json)
                 /\ fs = last_run.before.fs

C7_Witness ==
    /\ last_run.kind = "ok"
    /\ last_run.output = Some("out.txt")
    /\ last_run.before.fs["out.txt"] = File("grant")
    /\ fs["out.txt"] = File("{\"processed_count\":1,\"verbose\":false}")
    /\ stdout = <<>>

\* C8: from every usize value of processed_count, the maximum included,
\* process returns Ok and does not leave the counter below its value before
\* the call.
C8_ProcessNeverWrapsOrAborts ==
    ret.op = "process" =>
        /\ ret.kind = "ok"
        /\ processor.processed_count >= ret.before.processed_count

C10_RunIndependentOfEarlierRuns ==
    last_run.kind # "none" =>
        \A now \in Times :
            LET first == run(last_run.verbose, last_run.input,
                             last_run.output,
                             [last_run.before EXCEPT !.logger_set = FALSE],
                             last_run.faults, now, overflow_checks)
            IN  /\ last_run.kind = first.kind
                /\ last_run.emitted = first.emitted
====
